---------------------------- MODULE Spec2Model ----------------------------
(***************************************************************************)
(* Model of the beam analysis report generator (src/code.py): main(),     *)
(* BeamReportGenerator.load_data, the _create_* section builders,          *)
(* generate_report and _cleanup_aux_files.                                 *)
(*                                                                         *)
(* Numbers.  The table holds binary floating point numbers.  The model     *)
(* draws positions from multiples of 1/4 and shear forces / bending        *)
(* moments from multiples of 1/8, which are exact in binary, and keeps     *)
(* them as integer numerators: a position p stands for p/4 metres, a       *)
(* shear s for s/8 kN and a moment m for m/8 kN.m.  Python's               *)
(* fixed-point formatting ("{:.1f}", "{:.2f}") rounds the exact binary     *)
(* value half-to-even, which RoundHalfEven reproduces on these values.     *)
(* A formatted number is the record [dec |-> d, val |-> v]: the decimal    *)
(* v / 10^d as printed with d decimals.                                    *)
(*                                                                         *)
(* Optional values are tuples: <<>> is None / "no file", <<v>> is v.       *)
(***************************************************************************)
EXTENDS Integers, Sequences, FiniteSets, TLC

VARIABLES
    excel_exists,    \* os.path.exists(excel_path) (the input table file)
    image_exists,    \* os.path.exists(beam_image_path)
    table,           \* what pd.read_excel finds in the table file
    pc,              \* position of the run inside main / generate_report
    data,            \* self.data: <<>> (None) or <<DataFrame>>
    beam_length,     \* self.beam_length
    latex_content,   \* the markup assembled by generate_report, <<>> before
    tex_file,        \* {output_name}.tex on disk: <<>> absent, <<content>>
    pdf_exists,      \* {output_name}.pdf exists in the output directory
    aux_files,       \* extensions e for which {output_name}{e} exists
    run,             \* the loop variable of "for run in range(2)"
    exit_codes,      \* os.system results of this run's passes, in order
    log,             \* status lines printed by this run, in order
    deleted,         \* extensions whose file this run removed
    cleanup_done,    \* this run has gone through _cleanup_aux_files
    retval,          \* value returned by generate_report: <<>> or <<path>>
    runs             \* number of times main() has been started

vars == << excel_exists, image_exists, table, pc, data, beam_length,
           latex_content, tex_file, pdf_exists, aux_files, run, exit_codes,
           log, deleted, cleanup_done, retval, runs >>

-----------------------------------------------------------------------------
(* Bounds of the model *)

\* longest table drawn for the markup-generation specification
MaxRows == 2
\* longest table drawn for the whole-pipeline specification
PipeRows == 2
\* number of times the script is run in a behaviour
MaxRuns == 2

\* positions (quarters of a metre), shears and moments (eighths) in a table
PosVals == {0, 1, 2, 4}
ShearVals == {-9, -4, 0, 9}
MomentVals == {0, 5}
\* values datetime.now() can yield (days)
Dates == {"day1", "day2"}

-----------------------------------------------------------------------------
(* The table *)

Columns == {"x", "Shear force", "Bending Moment"}

MkRow(p, s, m) == ("x" :> p) @@ ("Shear force" :> s) @@ ("Bending Moment" :> m)

RowVals == {MkRow(p, s, m) : p \in PosVals, s \in ShearVals, m \in MomentVals}

SeqsUpTo(S, n) == UNION {[1..k -> S] : k \in 0..n}

Range(s) == {s[i] : i \in DOMAIN s}

NaN == <<"nan">>
Num(v) == <<"num", v>>

\* self.data[c]: the column as a sequence in row order
Series(df, c) == [i \in 1..Len(df.rows) |-> df.rows[i][c]]

\* Series.max(): NaN on an empty column
SeriesMax(s) ==
    IF s = <<>> THEN NaN
    ELSE Num(CHOOSE v \in Range(s) : \A w \in Range(s) : w <= v)

\* Series.min()
SeriesMin(s) ==
    IF s = <<>> THEN NaN
    ELSE Num(CHOOSE v \in Range(s) : \A w \in Range(s) : v <= w)

\* Series.idxmax(): label of the first occurrence of the maximum (labels
\* are the row numbers; rows are numbered from 1 here, from 0 in pandas)
idxmaxLast(s) ==
    CHOOSE i \in DOMAIN s :
        /\ \A j \in DOMAIN s : s[j] <= s[i]
        /\ \A j \in DOMAIN s : j > i => s[j] # s[i]

idxmax(s) ==
    CHOOSE i \in DOMAIN s :
        /\ \A j \in DOMAIN s : s[j] <= s[i]
        /\ \A j \in 1..(i - 1) : s[j] # s[i]

\* Series.idxmin(): label of the first occurrence of the minimum
idxmin(s) ==
    CHOOSE i \in DOMAIN s :
        /\ \A j \in DOMAIN s : s[i] <= s[j]
        /\ \A j \in 1..(i - 1) : s[j] # s[i]

-----------------------------------------------------------------------------
(* Number formatting *)

\* n/d rounded to the nearest integer, ties to the even one (d > 0)
RoundHalfEven(n, d) ==
    LET q == n \div d
        r == n % d
    IN  IF 2 * r < d THEN q
        ELSE IF 2 * r > d THEN q + 1
        ELSE IF q % 2 = 0 THEN q ELSE q + 1

\* f"{v:.1f}" of the number n/d
Fmt1(n, d) == [dec |-> 1, val |-> RoundHalfEven(10 * n, d)]
\* f"{v:.2f}" of the number n/d
Fmt2(n, d) == [dec |-> 2, val |-> RoundHalfEven(100 * n, d)]

\* f"{x:.1f}" of a position
FmtPos(p) == Fmt1(p, 4)
\* f"{v:.2f}" of a shear force or bending moment
FmtVal(v) == Fmt2(v, 8)

-----------------------------------------------------------------------------
(* The sections of the report that depend on the data.  The markup is kept  *)
(* as a record of the computed fields; the fixed text between them is not   *)
(* modelled.                                                                *)

\* _create_title_page: the date line is datetime.now(), formatted
CreateTitlePage(now) == [date |-> now]

\* _create_introduction: "Total Length" is f"{self.beam_length:.1f}"
CreateIntroduction(bl) ==
    [total_length |-> IF bl = NaN THEN NaN ELSE FmtPos(bl[2])]

\* the rows of the tabular: one per DataFrame row, in iterrows() order
TableRowsReversed(df) ==
    [i \in 1..Len(df.rows) |->
        LET row == df.rows[Len(df.rows) + 1 - i]
        IN  [x |-> FmtPos(row["x"]),
             shear |-> FmtVal(row["Shear force"]),
             moment |-> FmtVal(row["Bending Moment"])]]

TableRows(df) ==
    [i \in 1..Len(df.rows) |->
        LET row == df.rows[i]
        IN  [x |-> FmtPos(row["x"]),
             shear |-> FmtVal(row["Shear force"]),
             moment |-> FmtVal(row["Bending Moment"])]]

\* the "Zero Shear Location" item: the x of the first row whose shear is 0,
\* printed unformatted, or the text N/A
ZeroShearNearest(df) ==
    LET shear == Series(df, "Shear force")
        Abs(v) == IF v < 0 THEN -v ELSE v
        k == CHOOSE i \in DOMAIN shear :
                 /\ \A j \in DOMAIN shear : Abs(shear[i]) <= Abs(shear[j])
                 /\ \A j \in 1..(i - 1) : Abs(shear[j]) # Abs(shear[i])
    IN  <<"raw", df.rows[k]["x"]>>

ZeroShearLocation(df) ==
    LET shear == Series(df, "Shear force")
    IN  IF 0 \in Range(shear)
        THEN LET k == CHOOSE i \in DOMAIN shear :
                          /\ shear[i] = 0
                          /\ \A j \in 1..(i - 1) : shear[j] # 0
             IN  <<"raw", df.rows[k]["x"]>>
        ELSE <<"N/A">>

\* _create_data_table raises: KeyError on row['Shear force'] /
\* row['Bending Moment'] or self.data[...] when the column is absent,
\* ValueError from idxmax() on an empty column
DataTableRaisesOnlyWhenEmpty(df) == Len(df.rows) = 0

DataTableRaises(df) ==
    \/ "Shear force" \notin df.cols
    \/ "Bending Moment" \notin df.cols
    \/ Len(df.rows) = 0

\* _create_data_table: the tabular and the "Data Interpretation" list
CreateDataTable(df) ==
    LET shear == Series(df, "Shear force")
        moment == Series(df, "Bending Moment")
    IN  [rows |-> TableRows(df),
         max_shear |-> FmtVal(SeriesMax(shear)[2]),
         max_shear_x |-> FmtPos(df.rows[idxmax(shear)]["x"]),
         min_shear |-> FmtVal(SeriesMin(shear)[2]),
         min_shear_x |-> FmtPos(df.rows[idxmin(shear)]["x"]),
         max_moment |-> FmtVal(SeriesMax(moment)[2]),
         max_moment_x |-> FmtPos(df.rows[idxmax(moment)]["x"]),
         zero_shear |-> ZeroShearLocation(df)]

\* the y of a row's point in positive_coords: "if shear >= 0" it is the
\* shear, else 0
PositivePart(shear) == IF shear >= 0 THEN shear ELSE 0

\* the y of a row's point in negative_coords: 0 "if shear >= 0", else the
\* shear
NegativePartUnsplit(shear) == shear

NegativePart(shear) == IF shear >= 0 THEN 0 ELSE shear

\* _create_sfd_diagram: the two coordinate lists (unformatted numbers) and
\* the axis limits
CreateSfdDiagram(df, bl) ==
    LET shear == Series(df, "Shear force")
        n == Len(df.rows)
    IN  [positive_coords |->
            [i \in 1..n |-> <<df.rows[i]["x"], PositivePart(shear[i])>>],
         negative_coords |->
            [i \in 1..n |-> <<df.rows[i]["x"], NegativePart(shear[i])>>],
         xmax |-> bl[2] + 2,
         ymin |-> SeriesMin(shear)[2] - 80,
         ymax |-> SeriesMax(shear)[2] + 80,
         xtick |-> Series(df, "x")]

\* _create_bmd_diagram: the coordinate list, the axis limits and the two
\* computed items of "BMD Observations"
CreateBmdDiagram(df, bl) ==
    LET moment == Series(df, "Bending Moment")
    IN  [coords |-> [i \in 1..Len(df.rows) |-> <<df.rows[i]["x"], moment[i]>>],
         xmax |-> bl[2] + 2,
         ymax |-> SeriesMax(moment)[2] + 160,
         xtick |-> Series(df, "x"),
         center_x |-> Fmt1(bl[2], 8),
         max_moment |-> FmtVal(SeriesMax(moment)[2])]

\* _create_conclusion: the "Summary of Critical Values" table
CreateConclusion(df, bl) ==
    [max_shear |-> FmtVal(SeriesMax(Series(df, "Shear force"))[2]),
     max_shear_x |-> [dec |-> 1, val |-> 0],
     min_shear |-> FmtVal(SeriesMin(Series(df, "Shear force"))[2]),
     min_shear_x |-> FmtPos(bl[2]),
     max_moment |-> FmtVal(SeriesMax(Series(df, "Bending Moment"))[2]),
     max_moment_x |-> Fmt1(bl[2], 8)]

\* latex_content as assembled by generate_report
LatexContent(df, bl, now) ==
    [title |-> CreateTitlePage(now),
     introduction |-> CreateIntroduction(bl),
     data_table |-> CreateDataTable(df),
     sfd |-> CreateSfdDiagram(df, bl),
     bmd |-> CreateBmdDiagram(df, bl),
     conclusion |-> CreateConclusion(df, bl)]

-----------------------------------------------------------------------------
(* The run: main() and generate_report() *)

\* aux_extensions of _cleanup_aux_files, in the order of the loop
AuxExtensions == <<".aux", ".log", ".out", ".toc">>
AuxExt == Range(AuxExtensions)

\* "for run in range(2)": the number of pdflatex passes
Passes == 2

\* results of os.system: 0, or a non-zero exit code
ExitCodes == {0, 1}

\* os.path.join(output_dir, f"{self.output_name}.pdf")
PdfPath == "Beam_Analysis_Report.pdf"

\* the table of a file without header and rows
EmptyTable == [cols |-> {}, rows |-> <<>>]

\* tables of the whole-pipeline specification
PipeRowVals == {MkRow(0, 9, 0), MkRow(2, -9, 5)}
PipeTables == [cols : SUBSET Columns, rows : SeqsUpTo(PipeRowVals, PipeRows)]

\* tables of the markup-generation specification
MarkupTables == [cols : {Columns}, rows : SeqsUpTo(RowVals, MaxRows)]

\* a fresh process: no generator object, nothing printed
FreshProcess ==
    /\ pc = "main"
    /\ data = <<>>
    /\ beam_length = Num(0)
    /\ latex_content = <<>>
    /\ run = 0
    /\ exit_codes = <<>>
    /\ log = <<>>
    /\ deleted = {}
    /\ cleanup_done = FALSE
    /\ retval = <<>>

Init ==
    /\ excel_exists \in BOOLEAN
    /\ image_exists \in BOOLEAN
    /\ table \in IF excel_exists THEN PipeTables ELSE {EmptyTable}
    /\ tex_file = <<>>
    /\ pdf_exists \in BOOLEAN
    /\ aux_files \in SUBSET AuxExt
    /\ runs = 1
    /\ FreshProcess

InitMarkup ==
    /\ excel_exists = TRUE
    /\ image_exists = TRUE
    /\ table \in MarkupTables
    /\ tex_file = <<>>
    /\ pdf_exists = FALSE
    /\ aux_files = {}
    /\ runs = 1
    /\ FreshProcess

\* main's "Verify input files exist": which input is reported missing
MissingInputExcelOnly ==
    IF ~excel_exists THEN "excel" ELSE "none"

MissingInput ==
    IF ~excel_exists THEN "excel"
    ELSE IF ~image_exists THEN "image"
    ELSE "none"

\* main, up to the call of generate_report: return on a missing input,
\* else construct the generator (__init__)
Main ==
    /\ pc = "main"
    /\ IF MissingInput # "none"
       THEN /\ log' = Append(log, <<"ERROR", MissingInput>>)
            /\ pc' = "aborted"
       ELSE /\ log' = log
            /\ pc' = "load"
    /\ data' = <<>>
    /\ beam_length' = Num(0)
    /\ UNCHANGED << excel_exists, image_exists, table, latex_content, tex_file,
                    pdf_exists, aux_files, run, exit_codes, deleted,
                    cleanup_done, retval, runs >>

\* load_data raises KeyError at self.data['x'] when the column is absent
LoadRaises(df) == "x" \notin df.cols

\* "Calculate beam length from the maximum x value": self.data['x'].max()
BeamLengthLastRow(df) ==
    IF df.rows = <<>> THEN NaN ELSE Num(df.rows[Len(df.rows)]["x"])

BeamLength(df) == SeriesMax(Series(df, "x"))

\* load_data: read the table, derive the beam length
LoadData ==
    /\ pc = "load"
    /\ data' = <<table>>
    /\ IF LoadRaises(table)
       THEN /\ pc' = "raised"
            /\ beam_length' = beam_length
       ELSE /\ pc' = "generate"
            /\ beam_length' = BeamLength(table)
    /\ UNCHANGED << excel_exists, image_exists, table, latex_content, tex_file,
                    pdf_exists, aux_files, run, exit_codes, log, deleted,
                    cleanup_done, retval, runs >>

\* generate_report step 2: the sections are concatenated; an exception of a
\* section builder leaves generate_report
GenerateLatex ==
    /\ pc = "generate"
    /\ \E now \in Dates :
          IF DataTableRaises(data[1])
          THEN /\ pc' = "raised"
               /\ latex_content' = latex_content
          ELSE /\ pc' = "write"
               /\ latex_content' = <<LatexContent(data[1], beam_length, now)>>
    /\ UNCHANGED << excel_exists, image_exists, table, data, beam_length,
                    tex_file, pdf_exists, aux_files, run, exit_codes, log,
                    deleted, cleanup_done, retval, runs >>

\* generate_report step 3: write {output_name}.tex
WriteTex ==
    /\ pc = "write"
    /\ tex_file' = latex_content
    /\ pc' = "pdflatex"
    /\ run' = 0
    /\ UNCHANGED << excel_exists, image_exists, table, data, beam_length,
                    latex_content, pdf_exists, aux_files, exit_codes, log,
                    deleted, cleanup_done, retval, runs >>

\* where the loop goes after pass number r (0-based) returned result
AfterPassStopOnError(r, result) ==
    IF r + 1 < Passes /\ result = 0 THEN "pdflatex" ELSE "check"

AfterPass(r, result) ==
    IF r + 1 < Passes THEN "pdflatex" ELSE "check"

\* one iteration of the pdflatex loop: the renderer may or may not leave a
\* pdf and any of its intermediate files, and returns any exit code
Pdflatex ==
    /\ pc = "pdflatex"
    /\ run < Passes
    /\ \E result \in ExitCodes :
          /\ exit_codes' = Append(exit_codes, result)
          /\ log' = IF result # 0
                    THEN Append(log, <<"WARNING", run + 1, result>>)
                    ELSE log
          /\ pc' = AfterPass(run, result)
    /\ run' = run + 1
    /\ pdf_exists' \in BOOLEAN
    /\ aux_files' \in SUBSET AuxExt
    /\ UNCHANGED << excel_exists, image_exists, table, data, beam_length,
                    latex_content, tex_file, deleted, cleanup_done, retval,
                    runs >>

\* the line printed after the passes: success is os.path.exists(pdf_path)
StatusLineByExitCodes ==
    IF \A i \in DOMAIN exit_codes : exit_codes[i] = 0
    THEN <<"SUCCESS">> ELSE <<"ERROR", "pdf">>

StatusLine ==
    IF pdf_exists THEN <<"SUCCESS">> ELSE <<"ERROR", "pdf">>

\* what follows the output check
AfterCheckFailFast == IF pdf_exists THEN "cleanup" ELSE "raised"

AfterCheck == "cleanup"

\* the output check of generate_report
CheckPdf ==
    /\ pc = "check"
    /\ log' = Append(log, StatusLine)
    /\ pc' = AfterCheck
    /\ UNCHANGED << excel_exists, image_exists, table, data, beam_length,
                    latex_content, tex_file, pdf_exists, aux_files, run,
                    exit_codes, deleted, cleanup_done, retval, runs >>

\* the lines _cleanup_aux_files prints for the extensions from the k-th on,
\* when the files in present exist and removing those in failing fails
RECURSIVE CleanupLines(_, _, _)
CleanupLines(k, present, failing) ==
    IF k > Len(AuxExtensions) THEN <<>>
    ELSE LET ext == AuxExtensions[k]
             line == IF ext \notin present THEN <<>>
                     ELSE IF ext \in failing THEN << <<"NOT_REMOVED", ext>> >>
                     ELSE << <<"CLEANED", ext>> >>
         IN  line \o CleanupLines(k + 1, present, failing)

\* the loop of _cleanup_aux_files over the files in present, when os.remove
\* raises for those in failing: the files left, the files removed, the
\* lines printed
CleanupOutcomeStopAtFailure(present, failing) ==
    LET Index(ext) == CHOOSE k \in DOMAIN AuxExtensions : AuxExtensions[k] = ext
        reached == {e \in present :
                       \A f \in failing : Index(f) >= Index(e)}
    IN  [left |-> present \ (reached \ failing),
         removed |-> reached \ failing,
         lines |-> CleanupLines(1, reached, failing)]

CleanupOutcome(present, failing) ==
    [left |-> failing,
     removed |-> present \ failing,
     lines |-> CleanupLines(1, present, failing)]

\* _cleanup_aux_files: remove each existing {output_name}{ext}; os.remove
\* may fail for any of them, which is printed and skipped
CleanupAuxFiles ==
    /\ pc = "cleanup"
    /\ \E failing \in SUBSET aux_files :
          LET outcome == CleanupOutcome(aux_files, failing)
          IN  /\ aux_files' = outcome.left
              /\ deleted' = outcome.removed
              /\ log' = log \o outcome.lines
    /\ cleanup_done' = TRUE
    /\ pc' = "return"
    /\ UNCHANGED << excel_exists, image_exists, table, data, beam_length,
                    latex_content, tex_file, pdf_exists, run, exit_codes,
                    retval, runs >>

\* generate_report returns pdf_path; main prints it and returns
Return ==
    /\ pc = "return"
    /\ retval' = <<PdfPath>>
    /\ pc' = "done"
    /\ UNCHANGED << excel_exists, image_exists, table, data, beam_length,
                    latex_content, tex_file, pdf_exists, aux_files, run,
                    exit_codes, log, deleted, cleanup_done, runs >>

\* the script is started again on the same inputs and output directory
Rerun ==
    /\ pc \in {"done", "aborted", "raised"}
    /\ runs < MaxRuns
    /\ runs' = runs + 1
    /\ pc' = "main"
    /\ data' = <<>>
    /\ beam_length' = Num(0)
    /\ latex_content' = <<>>
    /\ run' = 0
    /\ exit_codes' = <<>>
    /\ log' = <<>>
    /\ deleted' = {}
    /\ cleanup_done' = FALSE
    /\ retval' = <<>>
    /\ UNCHANGED << excel_exists, image_exists, table, tex_file, pdf_exists,
                    aux_files >>

\* the steps of one run
Step ==
    \/ Main
    \/ LoadData
    \/ GenerateLatex
    \/ WriteTex
    \/ Pdflatex
    \/ CheckPdf
    \/ CleanupAuxFiles
    \/ Return

Next == Step \/ Rerun

NextMarkup ==
    \/ Main
    \/ LoadData
    \/ GenerateLatex
    \/ WriteTex

\* the whole pipeline, run up to MaxRuns times
Spec == Init /\ [][Next]_vars

\* the same, where a run that can take a step eventually takes one
FairSpec == Init /\ [][Next]_vars /\ WF_vars(Step)

\* one run up to the written markup file, over all tables up to MaxRows
SpecMarkup == InitMarkup /\ [][NextMarkup]_vars

-----------------------------------------------------------------------------
(* Properties.  They are stated on the table in the file (table.rows) and   *)
(* on the markup, with quantifiers over the rows, not with the operators    *)
(* the sections are built from.                                             *)

\* row i holds value v in column c and no earlier row does
FirstRowWith(c, v, i) ==
    /\ table.rows[i][c] = v
    /\ \A j \in 1..(i - 1) : table.rows[j][c] # v

\* v is the largest / smallest value of column c
IsMaxOf(c, v) ==
    /\ \E i \in DOMAIN table.rows : table.rows[i][c] = v
    /\ \A i \in DOMAIN table.rows : table.rows[i][c] <= v

IsMinOf(c, v) ==
    /\ \E i \in DOMAIN table.rows : table.rows[i][c] = v
    /\ \A i \in DOMAIN table.rows : table.rows[i][c] >= v

\* the text cell is the number n/d printed with dec decimals: a decimal with
\* that many digits within half a unit of its last digit of n/d
PrintsAs(cell, dec, n, d) ==
    LET scale == IF dec = 1 THEN 10 ELSE 100
        diff == d * cell.val - scale * n
    IN  /\ cell.dec = dec
        /\ 2 * diff <= d
        /\ -2 * diff <= d

(* C1: in the data-interpretation list the maximum shear, minimum shear and
   maximum moment are the maximum / minimum over all rows (the minimum shear
   also when no row is negative), and each is printed with the position of
   the first row, in row order, that holds it. *)
C1_ExtremesAtFirstOccurrence ==
    latex_content # <<>> =>
        LET dt == latex_content[1].data_table
        IN  \E i, j, k \in DOMAIN table.rows :
               /\ IsMaxOf("Shear force", table.rows[i]["Shear force"])
               /\ FirstRowWith("Shear force", table.rows[i]["Shear force"], i)
               /\ PrintsAs(dt.max_shear, 2, table.rows[i]["Shear force"], 8)
               /\ PrintsAs(dt.max_shear_x, 1, table.rows[i]["x"], 4)
               /\ IsMinOf("Shear force", table.rows[j]["Shear force"])
               /\ FirstRowWith("Shear force", table.rows[j]["Shear force"], j)
               /\ PrintsAs(dt.min_shear, 2, table.rows[j]["Shear force"], 8)
               /\ PrintsAs(dt.min_shear_x, 1, table.rows[j]["x"], 4)
               /\ IsMaxOf("Bending Moment", table.rows[k]["Bending Moment"])
               /\ FirstRowWith("Bending Moment",
                               table.rows[k]["Bending Moment"], k)
               /\ PrintsAs(dt.max_moment, 2, table.rows[k]["Bending Moment"], 8)
               /\ PrintsAs(dt.max_moment_x, 1, table.rows[k]["x"], 4)

\* two rows tie for the maximum shear at different positions, no shear is
\* negative, and the list names the position of the first of them
C1_Witness ==
    /\ latex_content # <<>>
    /\ Len(table.rows) = 2
    /\ table.rows[1]["Shear force"] = 9
    /\ table.rows[2]["Shear force"] = 9
    /\ table.rows[1]["x"] = 4
    /\ table.rows[2]["x"] = 0
    /\ latex_content[1].data_table.max_shear_x = [dec |-> 1, val |-> 10]
    /\ latex_content[1].data_table.min_shear = [dec |-> 2, val |-> 112]
    /\ latex_content[1].data_table.min_shear_x = [dec |-> 1, val |-> 10]

\* some row holds value v in column c and its position is printed as cell
LocatedAtRowWith(cell, c, v) ==
    \E i \in DOMAIN table.rows :
        /\ table.rows[i][c] = v
        /\ PrintsAs(cell, 1, table.rows[i]["x"], 4)

(* C2: wherever the report prints an extreme value with a location (the
   data-interpretation list, the BMD observations, the conclusion table),
   the location is the position of a row that holds that extreme value. *)
C2_LocationsAreRowPositions ==
    latex_content # <<>> =>
        LET doc == latex_content[1]
        IN  \E vmax, vmin \in Range(Series(table, "Shear force")),
               mmax \in Range(Series(table, "Bending Moment")) :
               /\ IsMaxOf("Shear force", vmax)
               /\ IsMinOf("Shear force", vmin)
               /\ IsMaxOf("Bending Moment", mmax)
               /\ LocatedAtRowWith(doc.data_table.max_shear_x,
                                   "Shear force", vmax)
               /\ LocatedAtRowWith(doc.data_table.min_shear_x,
                                   "Shear force", vmin)
               /\ LocatedAtRowWith(doc.data_table.max_moment_x,
                                   "Bending Moment", mmax)
               /\ LocatedAtRowWith(doc.bmd.center_x, "Bending Moment", mmax)
               /\ LocatedAtRowWith(doc.conclusion.max_shear_x,
                                   "Shear force", vmax)
               /\ LocatedAtRowWith(doc.conclusion.min_shear_x,
                                   "Shear force", vmin)
               /\ LocatedAtRowWith(doc.conclusion.max_moment_x,
                                   "Bending Moment", mmax)

(* C3: the zero-shear location is the position of the first row, in row
   order, whose shear is exactly 0, and the marker N/A, never a number,
   when no row has shear exactly 0. *)
C3_ZeroShearExactOrNA ==
    latex_content # <<>> =>
        LET zero == latex_content[1].data_table.zero_shear
        IN  IF \E i \in DOMAIN table.rows : table.rows[i]["Shear force"] = 0
            THEN \E i \in DOMAIN table.rows :
                    /\ FirstRowWith("Shear force", 0, i)
                    /\ zero = <<"raw", table.rows[i]["x"]>>
            ELSE zero = <<"N/A">>

\* the shear changes sign between two rows, no row has shear 0, and the
\* report prints N/A
C3_Witness ==
    /\ latex_content # <<>>
    /\ Len(table.rows) = 2
    /\ table.rows[1]["Shear force"] = 9
    /\ table.rows[2]["Shear force"] = -4
    /\ latex_content[1].data_table.zero_shear = <<"N/A">>

(* C4: the data table has exactly one table row per dataset row, in the
   original row order, and table row i carries the position, shear and
   moment of dataset row i (position with 1 decimal, the others with 2). *)
C4_TableRowsFollowDataset ==
    latex_content # <<>> =>
        LET out == latex_content[1].data_table.rows
        IN  /\ Len(out) = Len(table.rows)
            /\ \A i \in DOMAIN table.rows :
                  /\ PrintsAs(out[i].x, 1, table.rows[i]["x"], 4)
                  /\ PrintsAs(out[i].shear, 2, table.rows[i]["Shear force"], 8)
                  /\ PrintsAs(out[i].moment, 2,
                              table.rows[i]["Bending Moment"], 8)

\* a table of two different rows, not sorted by position, is printed in the
\* order of the file: 1.0 & -1.12 & 0.62, then 0.2 & 1.12 & 0.00
C4_Witness ==
    /\ tex_file # <<>>
    /\ table.rows = << MkRow(4, -9, 5), MkRow(1, 9, 0) >>
    /\ tex_file[1].data_table.rows =
          << [x |-> [dec |-> 1, val |-> 10],
              shear |-> [dec |-> 2, val |-> -112],
              moment |-> [dec |-> 2, val |-> 62]],
             [x |-> [dec |-> 1, val |-> 2],
              shear |-> [dec |-> 2, val |-> 112],
              moment |-> [dec |-> 2, val |-> 0]] >>

(* C5: markup generation does not depend on the system clock: a run that
   finds the markup file of an earlier run over the same table, image and
   output name rewrites it with identical text. *)
C5_SameMarkupEveryRun ==
    [][(pc = "write" /\ pc' = "pdflatex" /\ tex_file # <<>>)
          => tex_file' = tex_file]_vars

(* C6: when the table file or the image file does not exist, the run stops
   in main before any work: the table is never loaded, no markup is
   generated or written, the renderer is never invoked, no file is deleted. *)
C6_MissingInputAborts ==
    (~excel_exists \/ ~image_exists) =>
        /\ pc \in {"main", "aborted"}
        /\ data = <<>>
        /\ latex_content = <<>>
        /\ tex_file = <<>>
        /\ exit_codes = <<>>
        /\ deleted = {}
        /\ ~cleanup_done

\* the table exists, the image does not, intermediate files of an earlier
\* rendering lie in the directory: the run has stopped and they are still there
C6_Witness ==
    /\ excel_exists
    /\ ~image_exists
    /\ Len(table.rows) = 1
    /\ table.cols = Columns
    /\ pc = "aborted"
    /\ log = << <<"ERROR", "image">> >>
    /\ aux_files = AuxExt

\* the run is past the output check
Checked == pc \in {"cleanup", "return", "done"}

(* C7: after the two passes the run reports success exactly when the output
   document exists, whatever the exit codes were, and it has printed a
   warning for exactly the passes that returned non-zero. *)
C7_SuccessIffOutputExists ==
    Checked =>
        /\ <<"SUCCESS">> \in Range(log) <=> pdf_exists
        /\ <<"ERROR", "pdf">> \in Range(log) <=> ~pdf_exists
        /\ \A k \in 1..Passes :
              <<"WARNING", k, exit_codes[k]>> \in Range(log)
                  <=> exit_codes[k] # 0

\* both passes returned non-zero, the output exists, success is reported
\* after the two warnings
C7_Witness ==
    /\ pc = "done"
    /\ exit_codes = <<1, 1>>
    /\ pdf_exists
    /\ log = << <<"WARNING", 1, 1>>, <<"WARNING", 2, 1>>, <<"SUCCESS">> >>

(* C8: the renderer is invoked only after the markup file is written, and
   then exactly twice: after a first pass, whatever it returned, the second
   pass can run, and the output check, the cleanup and the return happen
   only after two passes. *)
C8_TwoPassesAfterWrite ==
    /\ exit_codes # <<>> => (tex_file # <<>> /\ tex_file = latex_content)
    /\ Len(exit_codes) <= Passes
    /\ pc = "pdflatex" => (Len(exit_codes) < Passes /\ ENABLED Pdflatex)
    /\ pc \in {"check", "cleanup", "return"} => Len(exit_codes) = Passes
    /\ (pc \in {"done", "raised"} /\ latex_content # <<>>) =>
           /\ pc = "done"
           /\ Len(exit_codes) = Passes
           /\ cleanup_done

\* the first pass returned non-zero and the run stands before the second
C8_Witness ==
    /\ pc = "pdflatex"
    /\ exit_codes = <<1>>
    /\ tex_file = latex_content
    /\ log = << <<"WARNING", 1, 1>> >>

(* C9: a run that reaches the rendering step eventually performs the
   cleanup; when the output document is absent at the check, the run still
   goes on to the cleanup and then returns the expected output path, and no
   error is raised once rendering has started. *)
C9_CleanupAndReturn ==
    /\ (pc = "pdflatex") ~> cleanup_done
    /\ (pc = "check" /\ ~pdf_exists)
           ~> (pc = "done" /\ cleanup_done /\ retval = <<PdfPath>>)
    /\ [](pc = "raised" => latex_content = <<>>)

\* both passes returned 0, no output document: the error is printed, the
\* intermediate files are removed and the path is returned
C9_Witness ==
    /\ pc = "done"
    /\ ~pdf_exists
    /\ exit_codes = <<0, 0>>
    /\ <<"ERROR", "pdf">> \in Range(log)
    /\ deleted = AuxExt
    /\ retval = <<PdfPath>>

\* the table parses but has no rows, or lacks a required column
UnusableTable ==
    /\ excel_exists
    /\ image_exists
    /\ (Len(table.rows) = 0 \/ table.cols # Columns)

(* C10: a table with zero rows, or without one of the columns x, Shear
   force, Bending Moment, ends the run with an uncaught error and no partial
   output: no markup file is written, the renderer is never invoked. *)
C10_UnusableTableIsFatal ==
    UnusableTable =>
        /\ pc \in {"main", "load", "generate", "raised"}
        /\ latex_content = <<>>
        /\ tex_file = <<>>
        /\ exit_codes = <<>>
        /\ retval = <<>>
        /\ deleted = {}

\* a table with the three columns and no row: load_data went through with a
\* NaN beam length and the data table section raised
C10_Witness ==
    /\ excel_exists
    /\ image_exists
    /\ table.cols = Columns
    /\ table.rows = <<>>
    /\ beam_length = NaN
    /\ pc = "raised"

\* load_data has returned in this run
Loaded == pc \notin {"main", "load", "aborted"} /\ "x" \in table.cols

(* C11: once load_data has returned on a non-empty dataset, beam_length is
   the largest position over all rows, in whatever order the rows come (it
   is not the position of the last row), and it stays so through every
   later step of the run. *)
C11_BeamLengthIsMaxPosition ==
    (Loaded /\ table.rows # <<>>) =>
        /\ beam_length[1] = "num"
        /\ \E i \in DOMAIN table.rows : table.rows[i]["x"] = beam_length[2]
        /\ \A i \in DOMAIN table.rows : table.rows[i]["x"] <= beam_length[2]

\* the rows are not sorted by position, the last row is not the farthest,
\* and the run has rendered, cleaned up and returned with the same length
C11_Witness ==
    /\ pc = "done"
    /\ cleanup_done
    /\ Len(table.rows) = 2
    /\ table.rows[1]["x"] = 2
    /\ table.rows[2]["x"] = 0
    /\ beam_length = Num(2)

(* C12: the positive and the negative shear series of the shear force
   diagram each have one point per dataset row, in row order, at that row's
   position; the positive series is never below 0, the negative never above,
   at most one of the two points of a row is off 0, and the two add up to
   the row's shear: a shear >= 0 (0 included) is carried by the positive
   series, a shear < 0 by the negative one. *)
C12_ShearSeriesSplitBySign ==
    latex_content # <<>> =>
        LET pos == latex_content[1].sfd.positive_coords
            neg == latex_content[1].sfd.negative_coords
        IN  /\ Len(pos) = Len(table.rows)
            /\ Len(neg) = Len(table.rows)
            /\ \A i \in DOMAIN table.rows :
                  /\ pos[i][1] = table.rows[i]["x"]
                  /\ neg[i][1] = table.rows[i]["x"]
                  /\ pos[i][2] >= 0
                  /\ neg[i][2] <= 0
                  /\ pos[i][2] = 0 \/ neg[i][2] = 0
                  /\ pos[i][2] + neg[i][2] = table.rows[i]["Shear force"]

\* a positive shear at x = 1.0 and a negative one at x = 0.25: the first is
\* in the positive series, the second in the negative, each with 0 opposite
C12_Witness ==
    /\ latex_content # <<>>
    /\ table.rows = << MkRow(4, 9, 5), MkRow(1, -4, 0) >>
    /\ latex_content[1].sfd.positive_coords = << <<4, 9>>, <<1, 0>> >>
    /\ latex_content[1].sfd.negative_coords = << <<4, 0>>, <<1, -4>> >>

(* C13: the cleanup touches only the files {output_name}{ext} with ext
   among .aux, .log, .out, .toc: the markup file, the output document, the
   input table and the image are as before; every such file that existed
   is either removed, which is printed, or its removal failed, which is
   printed as a warning while the file stays; a failure stops neither the
   attempts on the other files nor the run, which goes on to return. *)
C13_CleanupOnlyAuxFiles ==
    [][pc = "cleanup" =>
          /\ tex_file' = tex_file
          /\ pdf_exists' = pdf_exists
          /\ excel_exists' = excel_exists
          /\ image_exists' = image_exists
          /\ table' = table
          /\ aux_files' \subseteq aux_files
          /\ deleted' = aux_files \ aux_files'
          /\ deleted' \subseteq {".aux", ".log", ".out", ".toc"}
          /\ \A ext \in aux_files :
                /\ <<"CLEANED", ext>> \in Range(log') <=> ext \in deleted'
                /\ <<"NOT_REMOVED", ext>> \in Range(log') <=> ext \in aux_files'
          /\ pc' = "return"
          /\ retval' = retval]_vars

\* the four intermediate files existed, removing the first failed: it is
\* still there with its warning, the other three are gone, the run returned
C13_Witness ==
    /\ pc = "done"
    /\ tex_file # <<>>
    /\ pdf_exists
    /\ aux_files = {".aux"}
    /\ deleted = {".log", ".out", ".toc"}
    /\ <<"NOT_REMOVED", ".aux">> \in Range(log)
    /\ <<"CLEANED", ".toc">> \in Range(log)
    /\ retval = <<PdfPath>>

=============================================================================
